---- MODULE Spec2Model ----
(***************************************************************************)
(* Model of teamspeak-autochannel (src/src/main.rs): the ServerQuery       *)
(* status-line decoder (QueryStatus::try_from, TelnetConn::decode_result)  *)
(* and the synchronous session (connect, login, select_server) driven by   *)
(* staff/main.                                                             *)
(*                                                                         *)
(* Text is modelled as a sequence of one-character strings; the element    *)
(* "<FF>" stands for a byte that is not valid UTF-8.                       *)
(***************************************************************************)
EXTENDS Integers, Sequences, FiniteSets, TLC

VARIABLES
    pc,                 \* position of main/staff (or of the decoder harness)
    debug_assertions,   \* build profile: TRUE when debug_assert! is compiled in
    port_arg,           \* --port argument (NoArg when absent)
    sid_arg,            \* --sid argument (NoArg when absent)
    port,               \* the u16 handed to staff (0 before main parsed it)
    pending,            \* chunks the server has sent that have not arrived yet
    inbox,              \* bytes that arrived on the channel and were not read yet
    wire,               \* commands the client wrote: <<[cmd, bytes]>>
    srv,                \* the server: [banner sent, replies given so far]
    events,             \* the client's channel operations so far, in order
    data,               \* [login, use]: what read_data returned to each one's write_and_read
    status,             \* [login, use]: what login / select_server returned
    result,             \* what staff returned (Running until it returns)
    arg,                \* decoder harness: the buffer given to decode_result
    out                 \* decoder harness: [decoded, returned]

vars == <<pc, debug_assertions, port_arg, sid_arg, port, pending, inbox, wire,
          srv, events, data, status, result, arg, out>>

(***************************************************************************)
(* Bounds of the model.                                                    *)
(***************************************************************************)
\* number of lines in a buffer given to the decoder harness
MaxLines == 2
\* number of chunks the server's greeting may arrive in
MaxBannerChunks == 2

(***************************************************************************)
(* Text helpers (std::str).                                                *)
(***************************************************************************)
NoArg == <<"<absent>">>

Digits == <<"0", "1", "2", "3", "4", "5", "6", "7", "8", "9">>

IsDigit(c) == \E i \in 1..10 : Digits[i] = c

DigitVal(c) == (CHOOSE i \in 1..10 : Digits[i] = c) - 1

\* str::starts_with
starts_with(s, p) == Len(s) >= Len(p) /\ SubSeq(s, 1, Len(p)) = p

\* index of the first occurrence of p in s, 0 when there is none (str::find)
find(s, p) ==
    LET hits == {i \in 1..(Len(s) - Len(p) + 1) : SubSeq(s, i, i + Len(p) - 1) = p}
    IN  IF hits = {} THEN 0 ELSE CHOOSE i \in hits : \A j \in hits : i <= j

\* str::contains
contains(s, p) == find(s, p) # 0

\* str::split_once: the text before and after the first occurrence of p
split_once(s, p) ==
    LET i == find(s, p)
    IN  IF i = 0
        THEN [found |-> FALSE, left |-> <<>>, right |-> <<>>]
        ELSE [found |-> TRUE,
              left  |-> SubSeq(s, 1, i - 1),
              right |-> SubSeq(s, i + Len(p), Len(s))]

\* one line of str::lines: the "\n" is removed, and a "\r" right before it
strip_cr(l) ==
    IF Len(l) > 0 /\ l[Len(l)] = "\r" THEN SubSeq(l, 1, Len(l) - 1) ELSE l

\* str::lines: split at "\n" (or "\r\n"); a final line ending is optional
RECURSIVE lines(_)
lines(s) ==
    IF s = <<>> THEN <<>>
    ELSE LET i == find(s, <<"\n">>)
         IN  IF i = 0 THEN <<s>>
             ELSE <<strip_cr(SubSeq(s, 1, i - 1))>> \o lines(SubSeq(s, i + 1, Len(s)))

\* String::from_utf8 succeeds
from_utf8_ok(bytes) == \A i \in 1..Len(bytes) : bytes[i] # "<FF>"

I32_MIN == -2147483647 - 1
I32_MAX == 2147483647
U16_MAX == 65535

\* the digit loop of from_str: checked_mul / checked_add (checked_sub after a "-"),
\* so a value outside lo..hi is an error and never wraps
RECURSIVE Accumulate(_, _, _, _, _)
Accumulate(ds, acc, neg, lo, hi) ==
    IF ds = <<>> THEN [ok |-> TRUE, val |-> acc]
    ELSE LET d == DigitVal(Head(ds))
         IN  IF neg
             THEN IF acc < (lo + d + 9) \div 10
                  THEN [ok |-> FALSE, val |-> 0]
                  ELSE Accumulate(Tail(ds), 10 * acc - d, neg, lo, hi)
             ELSE IF acc > (hi - d) \div 10
                  THEN [ok |-> FALSE, val |-> 0]
                  ELSE Accumulate(Tail(ds), 10 * acc + d, neg, lo, hi)

\* <integer>::from_str: an optional sign ("-" only for a signed type), at least
\* one digit, digits only, in range
parse_int(s, lo, hi) ==
    LET signed == s # <<>> /\ (Head(s) = "+" \/ (Head(s) = "-" /\ lo < 0))
        neg    == s # <<>> /\ Head(s) = "-"
        ds     == IF signed THEN Tail(s) ELSE s
    IN  IF ds # <<>> /\ (\A i \in 1..Len(ds) : IsDigit(ds[i]))
        THEN Accumulate(ds, 0, neg, lo, hi)
        ELSE [ok |-> FALSE, val |-> 0]

parse_i32(s) == parse_int(s, I32_MIN, I32_MAX)
parse_u16(s) == parse_int(s, 0, U16_MAX)

RECURSIVE NatDigits(_)
NatDigits(n) ==
    IF n < 10 THEN <<Digits[n + 1]>> ELSE NatDigits(n \div 10) \o <<Digits[(n % 10) + 1]>>

\* Display for i32, as format!("{}", server_id) prints it
fmt_i32(n) == IF n < 0 THEN <<"-">> \o NatDigits(0 - n) ELSE NatDigits(n)

(***************************************************************************)
(* Results.  tag is "Some" (Ok(Some(status)), or Ok(status)), "None"       *)
(* (Ok(None)), "Err" (an anyhow error, err names its message) or "Panic"   *)
(* (the thread panicked: a failed debug_assert! or unwrap()).              *)
(***************************************************************************)
Some(id, msg) == [tag |-> "Some", err |-> "", id |-> id, msg |-> msg]
None          == [tag |-> "None", err |-> "", id |-> 0, msg |-> <<>>]
Err(e)        == [tag |-> "Err", err |-> e, id |-> 0, msg |-> <<>>]
ErrStatus(e, id, msg) == [tag |-> "Err", err |-> e, id |-> id, msg |-> msg]
Panic         == [tag |-> "Panic", err |-> "", id |-> 0, msg |-> <<>>]
Running       == [tag |-> "Running", err |-> "", id |-> 0, msg |-> <<>>]

ErrorTok == <<"e", "r", "r", "o", "r", " ">>
ErrorIdTok == <<"e", "r", "r", "o", "r", " ", "i", "d", "=">>

\* QueryStatus::is_ok
is_ok(st) == st.id = 0

\* impl TryFrom<&str> for QueryStatus
try_from(value) ==
    LET s1 == split_once(value, ErrorTok)
        s2 == split_once(s1.right, <<" ">>)
        i  == split_once(s2.left, <<"=">>)
        m  == split_once(s2.right, <<"=">>)
        n  == parse_i32(i.right)
    IN  IF ~s1.found THEN Err("SplitError")
        ELSE IF ~s2.found THEN Err("SplitError")
        ELSE IF debug_assertions /\ ~contains(s2.left, <<"=">>) THEN Panic
        ELSE IF debug_assertions /\ ~contains(s2.right, <<"=">>) THEN Panic
        ELSE IF ~i.found THEN Panic
        ELSE IF ~m.found THEN Panic
        ELSE IF ~n.ok THEN Err("ParseError")
        ELSE Some(n.val, m.right)

\* the for loop of decode_result over the lines that are left
RECURSIVE scan_lines(_)
scan_lines(ls) ==
    IF ls = <<>> THEN None
    ELSE IF starts_with(Head(ls), ErrorTok)
         THEN LET st == try_from(Head(ls))
              IN  IF st.tag # "Some" THEN st
                  ELSE IF ~is_ok(st) THEN ErrStatus("NonOkStatus", st.id, st.msg)
                  ELSE st
         ELSE scan_lines(Tail(ls))

\* decode_result that drops the bytes that are not text (from_utf8_lossy)
\* and scans what is left
decode_result_lossy(bytes) ==
    LET text == SelectSeq(bytes, LAMBDA b : b # "<FF>")
    IN  IF debug_assertions /\ ~contains(text, ErrorIdTok) THEN Panic
        ELSE scan_lines(lines(text))

\* TelnetConn::decode_result
decode_result(bytes) ==
    IF ~from_utf8_ok(bytes) THEN Err("FromUtf8Error")
    ELSE IF debug_assertions /\ ~contains(bytes, ErrorIdTok) THEN Panic
    ELSE scan_lines(lines(bytes))

\* Self::decode_result(data)?.ok_or_else(|| anyhow!("Can't find status line."))
status_of(bytes) ==
    LET d == decode_result(bytes)
    IN  IF d.tag = "None" THEN Err("NoStatusLine") ELSE d

(***************************************************************************)
(* Texts the model uses.                                                   *)
(***************************************************************************)
IdEq  == <<"i", "d", "=">>
MsgEq == <<"m", "s", "g", "=">>
Ok_   == <<"o", "k">>
LF    == <<"\n">>
CRLF  == <<"\r", "\n">>
LFCR  == <<"\n", "\r">>

\* the status line "error id=<id> msg=<msg>"
StatusLine(id, msg) == ErrorTok \o IdEq \o id \o <<" ">> \o MsgEq \o msg

L_ok       == StatusLine(<<"0">>, Ok_)                       \* error id=0 msg=ok
L_520      == StatusLine(<<"5", "2", "0">>, <<"n", "o">>)    \* error id=520 msg=no
L_neg      == StatusLine(<<"-", "1">>, <<>>)                 \* error id=-1 msg=
L_msgeq    == StatusLine(<<"0">>, <<"a", "=", "b", " ", "c">>) \* error id=0 msg=a=b c
L_nan      == StatusLine(<<"x">>, Ok_)                       \* error id=x msg=ok
L_big      == StatusLine(<<"2", "1", "4", "7", "4", "8", "3", "6", "4", "8">>, Ok_)
L_nospace  == ErrorTok \o IdEq \o <<"0">>                    \* error id=0
L_ideq     == ErrorTok \o <<"i", "d", " ">> \o MsgEq \o Ok_  \* error id msg=ok
L_msgeq0   == ErrorTok \o IdEq \o <<"0", " ", "m", "s", "g">> \* error id=0 msg
L_short    == ErrorTok \o <<"x">>                            \* error x
L_ts3      == <<"T", "S", "3">>                              \* TS3
L_mid      == <<"x", " ">> \o L_ok                           \* x error id=0 msg=ok
L_word     == <<"n", "o", " ">> \o ErrorTok                  \* no error
L_empty    == <<>>
L_bad      == <<"<FF>">>                                     \* not UTF-8

\* lines of the form "error id=<N> msg=<text>", with the N and the text they carry
WellFormed ==
    { [line |-> L_ok,    id |-> 0,   msg |-> Ok_],
      [line |-> L_520,   id |-> 520, msg |-> <<"n", "o">>],
      [line |-> L_neg,   id |-> -1,  msg |-> <<>>],
      [line |-> L_msgeq, id |-> 0,   msg |-> <<"a", "=", "b", " ", "c">>] }

DecoderLines ==
    { L_ok, L_520, L_neg, L_msgeq, L_nan, L_big, L_nospace, L_ideq, L_msgeq0,
      L_short, L_ts3, L_mid, L_word, L_empty, L_bad }

Terminators == { LF, CRLF, LFCR }

RECURSIVE Concat(_)
Concat(ss) == IF ss = <<>> THEN <<>> ELSE Head(ss) \o Concat(Tail(ss))

\* a buffer as a list of [line, term]: each line followed by its terminator
Render(ps) == Concat([i \in 1..Len(ps) |-> ps[i].line \o ps[i].term])

LineLists ==
    UNION { [1..n -> [line : DecoderLines, term : Terminators]] : n \in 0..MaxLines }

(***************************************************************************)
(* The decoder on its own: decode_result, and what login / select_server   *)
(* make of its result, applied to every buffer of LineLists.               *)
(***************************************************************************)
Idle == [login |-> None, use |-> None]

\* write_and_read has not returned any data
NotRead == [tag |-> "NotRead", bytes |-> <<>>]
Unread  == [login |-> NotRead, use |-> NotRead]

InitDecode ==
    /\ pc = "decode"
    /\ debug_assertions \in BOOLEAN
    /\ arg \in LineLists
    /\ out = [decoded |-> Running, returned |-> Running]
    /\ port_arg = NoArg /\ sid_arg = NoArg /\ port = 0
    /\ pending = <<>> /\ inbox = <<>> /\ wire = <<>>
    /\ srv = [banner |-> FALSE, replies |-> <<>>]
    /\ events = <<>>
    /\ data = Unread /\ status = Idle /\ result = Running

orchestration == <<debug_assertions, port_arg, sid_arg, port, pending, inbox, wire,
                   srv, events, data, status, result>>

\* decode_result(data) is evaluated
decode_call ==
    /\ pc = "decode"
    /\ out' = [out EXCEPT !.decoded = decode_result(Render(arg))]
    /\ pc' = "decoded"
    /\ UNCHANGED <<arg, orchestration>>

\* login / select_server turn the decoder's result into their own
status_call ==
    /\ pc = "decoded"
    /\ out' = [out EXCEPT !.returned = status_of(Render(arg))]
    /\ pc' = "returned"
    /\ UNCHANGED <<arg, orchestration>>

NextDecode == decode_call \/ status_call

SpecDecode == InitDecode /\ [][NextDecode]_vars

(***************************************************************************)
(* The session and the run: main, staff, TelnetConn::{connect, read_data,  *)
(* write_data, write_and_read, login, select_server}, against a server     *)
(* that may send anything or nothing.                                      *)
(***************************************************************************)
DefaultPort == 10011
BannerTimeout == 1
CommandTimeout == 2

User     == <<"u">>
Password == <<"p">>

PortArgs == { NoArg, <<"a", "b", "c">>, <<"8", "0">>, <<"7", "0", "0", "0", "0">> }
SidArgs  == { NoArg, <<"a", "b", "c">>, <<"+", "7">>, <<"-", "1">>,
              <<"2", "1", "4", "7", "4", "8", "3", "6", "4", "8">> }

L_welcome == <<"W", "e", "l", "c", "o", "m", "e">>

\* what the server may send on its own after accepting the connection: the
\* greeting, "TS3" and then lines of welcome, arriving in 1..MaxBannerChunks chunks
BannerChunks(n) == [i \in 1..n |-> IF i = 1 THEN L_ts3 \o LFCR ELSE L_welcome \o LFCR]

Banners == { BannerChunks(n) : n \in 1..MaxBannerChunks }

\* what the server may answer to a command, as the chunks it arrives in
Replies ==
    { << L_ok \o LFCR >>,
      << L_520 \o LFCR >>,
      << L_ts3 \o LFCR >>,
      << L_nan \o LFCR >>,
      << L_msgeq0 \o LFCR >>,
      << L_bad >>,
      << L_ts3 \o LF \o L_ok \o LF >>,
      << L_ts3 \o LFCR, L_ok \o LFCR >> }

Ev(op, n, cmd, o) == [op |-> op, n |-> n, cmd |-> cmd, out |-> o]

Init ==
    /\ pc = "main"
    /\ debug_assertions \in BOOLEAN
    /\ port_arg \in PortArgs
    /\ sid_arg \in SidArgs
    /\ port = 0
    /\ pending = <<>> /\ inbox = <<>> /\ wire = <<>>
    /\ srv = [banner |-> FALSE, replies |-> <<>>]
    /\ events = <<>>
    /\ data = Unread /\ status = Idle /\ result = Running
    /\ arg = <<>>
    /\ out = [decoded |-> Running, returned |-> Running]

\* the process has not exited and holds an open channel
Connected == pc \in {"banner", "login", "login_read", "select", "select_read"}

\* ---- the server and the network ----

\* the server greets
ServerBanner ==
    /\ Connected /\ ~srv.banner
    /\ \E b \in Banners : pending' = pending \o b
    /\ srv' = [srv EXCEPT !.banner = TRUE]
    /\ UNCHANGED <<pc, debug_assertions, port_arg, sid_arg, port, inbox, wire,
                   events, data, status, result, arg, out>>

\* a command is complete for the server once its line feed arrived
Complete == SelectSeq(wire, LAMBDA w : contains(w.bytes, LF))

\* the server answers the oldest command it has not answered
ServerReply ==
    /\ Connected /\ Len(srv.replies) < Len(Complete)
    /\ \E r \in Replies :
          /\ pending' = pending \o r
          /\ srv' = [banner |-> TRUE, replies |-> Append(srv.replies, r)]
    /\ UNCHANGED <<pc, debug_assertions, port_arg, sid_arg, port, inbox, wire,
                   events, data, status, result, arg, out>>

\* the next chunk arrives at the client's socket
Deliver ==
    /\ Connected /\ pending # <<>>
    /\ inbox' = inbox \o Head(pending)
    /\ pending' = Tail(pending)
    /\ UNCHANGED <<pc, debug_assertions, port_arg, sid_arg, port, wire, srv,
                   events, data, status, result, arg, out>>

\* ---- the client ----

\* ReadEvents of a read without a timeout (Telnet::read): it returns only
\* once data arrived
ReadEvents_blocking == IF inbox # <<>> THEN {"Data"} ELSE {}

\* what Telnet::read_timeout may yield: everything that arrived, or, when
\* nothing did, a timeout; a transport error or another telnet event any time
ReadEvents ==
    (IF inbox # <<>> THEN {"Data"} ELSE {"TimedOut", "NoData"}) \cup {"Error", "Other"}

\* TelnetConn::read_data: Ok(Some(data)), Ok(None) or Err
read_data(ev) ==
    CASE ev = "Data"                  -> [tag |-> "Data", bytes |-> inbox]
      [] ev \in {"TimedOut", "NoData"} -> [tag |-> "Nothing", bytes |-> <<>>]
      [] OTHER                         -> [tag |-> "Err", bytes |-> <<>>]

\* the channel after a read, and the record of the read
Read(timeout, ev) ==
    /\ inbox' = IF ev = "Data" THEN <<>> ELSE inbox
    /\ events' = Append(events, Ev("read", timeout, "", ev))

\* what Telnet::write may return for a payload: all of it, less, or an I/O error
WriteOutcomes(payload) ==
    { [out |-> "Full", n |-> Len(payload)],
      [out |-> "Short", n |-> Len(payload) - 1],
      [out |-> "Short", n |-> Len(payload) - 2],
      [out |-> "Error", n |-> 0] }

\* write_data with the I/O error of the write only logged (as the short write is)
write_data_logged(w) == None

\* write_data that fails on a short write as on an I/O error
write_data_strict(w) == IF w.out \in {"Error", "Short"} THEN Err("WriteError") ELSE None

\* TelnetConn::write_data: a short write is logged, an I/O error is returned
write_data(w) == IF w.out = "Error" THEN Err("WriteError") ELSE None

\* the channel after a write, and the record of the write
Write(cmd, payload, w) ==
    /\ wire' = IF w.out = "Error" THEN wire
               ELSE Append(wire, [cmd |-> cmd, bytes |-> SubSeq(payload, 1, w.n)])
    /\ events' = Append(events, Ev("write", 0, cmd, w.out))

\* exchange with the absence of data taken for an empty response
\* (unwrap_or_default() in place of ok_or_else)
exchange_nodata(r) ==
    CASE r.tag = "Err" -> Err("ReadError")
      [] OTHER         -> status_of(r.bytes)

\* the read half of write_and_read followed by the decoding of login /
\* select_server: the Result they return
exchange(r) ==
    CASE r.tag = "Err"     -> Err("ReadError")
      [] r.tag = "Nothing" -> Err("NoResponse")
      [] OTHER             -> status_of(r.bytes)

\* checked with the Result dropped: staff goes on whatever login returned
checked_ignored(st, failure) ==
    IF st.tag \in {"Some", "Err"} THEN [st EXCEPT !.tag = "Ok"] ELSE st

\* staff's handling of the Result of login / select_server: `?`, then is_ok
checked(st, failure) ==
    CASE st.tag = "Some" /\ ~is_ok(st) -> ErrStatus(failure, st.id, st.msg)
      [] st.tag = "Some"               -> [st EXCEPT !.tag = "Ok"]
      [] OTHER                         -> st

login_payload == <<"l", "o", "g", "i", "n", " ">> \o User \o <<" ">> \o Password \o LFCR
use_payload(server_id) == <<"u", "s", "e", " ">> \o fmt_i32(server_id) \o LFCR

\* main with a port that does not parse made fatal (`?` in place of
\* unwrap_or_else)
main_strict ==
    /\ pc = "main"
    /\ LET p == parse_u16(IF port_arg = NoArg
                          THEN fmt_i32(DefaultPort) ELSE port_arg)
       IN  /\ port' = IF p.ok THEN p.val ELSE port
           /\ pc' = IF p.ok THEN "connect" ELSE "exit"
           /\ result' = IF p.ok THEN result ELSE Err("PortParseError")
    /\ UNCHANGED <<debug_assertions, port_arg, sid_arg, pending, inbox, wire, srv,
                   events, data, status, arg, out>>

\* main: the arguments, with their defaults; a port that does not parse is 10011
main ==
    /\ pc = "main"
    /\ port' = LET p == parse_u16(IF port_arg = NoArg
                                  THEN fmt_i32(DefaultPort) ELSE port_arg)
               IN  IF p.ok THEN p.val ELSE DefaultPort
    /\ pc' = "connect"
    /\ UNCHANGED <<debug_assertions, port_arg, sid_arg, pending, inbox, wire, srv,
                   events, data, status, result, arg, out>>

\* --sid, or its default "0"
sid == IF sid_arg = NoArg THEN <<"0">> ELSE sid_arg

\* TelnetConn::connect, first half: Telnet::connect
connect ==
    /\ pc = "connect"
    /\ \E ok \in BOOLEAN :
          /\ events' = Append(events, Ev("connect", port, "", IF ok THEN "Ok" ELSE "Error"))
          /\ pc' = IF ok THEN "banner" ELSE "exit"
          /\ result' = IF ok THEN result ELSE Err("ConnectError")
    /\ UNCHANGED <<debug_assertions, port_arg, sid_arg, port, pending, inbox, wire,
                   srv, data, status, arg, out>>

\* connect_read with the error of the read dropped (.ok() in place of `?`)
connect_read_lenient ==
    /\ pc = "banner"
    /\ \E ev \in ReadEvents :
          /\ Read(BannerTimeout, ev)
          /\ pc' = "login"
          /\ result' = result
    /\ UNCHANGED <<debug_assertions, port_arg, sid_arg, port, pending, wire, srv,
                   data, status, arg, out>>

\* TelnetConn::connect, second half: the read of the greeting
connect_read ==
    /\ pc = "banner"
    /\ \E ev \in ReadEvents :
          /\ Read(BannerTimeout, ev)
          /\ pc' = IF read_data(ev).tag = "Err" THEN "exit" ELSE "login"
          /\ result' = IF read_data(ev).tag = "Err" THEN Err("ReadError") ELSE result
    /\ UNCHANGED <<debug_assertions, port_arg, sid_arg, port, pending, wire, srv,
                   data, status, arg, out>>

\* login_write with the read left out: the next command is written at once
login_write_pipelined ==
    /\ pc = "login"
    /\ \E w \in WriteOutcomes(login_payload) :
          /\ Write("login", login_payload, w)
          /\ status' = [status EXCEPT !.login = write_data(w)]
          /\ pc' = IF write_data(w).tag = "Err" THEN "exit" ELSE "select"
          /\ result' = IF write_data(w).tag = "Err" THEN write_data(w) ELSE result
    /\ UNCHANGED <<debug_assertions, port_arg, sid_arg, port, pending, inbox, srv,
                   data, arg, out>>

\* login_write with the sid parsed before the login (sid.parse()? moved to
\* the top of staff's exchanges)
login_write_sid_first ==
    /\ pc = "login"
    /\ IF ~parse_i32(sid).ok
       THEN /\ pc' = "exit"
            /\ result' = Err("SidParseError")
            /\ UNCHANGED <<wire, events, status>>
       ELSE \E w \in WriteOutcomes(login_payload) :
               /\ Write("login", login_payload, w)
               /\ status' = [status EXCEPT !.login = write_data(w)]
               /\ pc' = IF write_data(w).tag = "Err" THEN "exit" ELSE "login_read"
               /\ result' = IF write_data(w).tag = "Err" THEN write_data(w) ELSE result
    /\ UNCHANGED <<debug_assertions, port_arg, sid_arg, port, pending, inbox, srv,
                   data, arg, out>>

\* TelnetConn::login up to the write of write_and_read
login_write ==
    /\ pc = "login"
    /\ \E w \in WriteOutcomes(login_payload) :
          /\ Write("login", login_payload, w)
          /\ status' = [status EXCEPT !.login = write_data(w)]
          /\ pc' = IF write_data(w).tag = "Err" THEN "exit" ELSE "login_read"
          /\ result' = IF write_data(w).tag = "Err" THEN write_data(w) ELSE result
    /\ UNCHANGED <<debug_assertions, port_arg, sid_arg, port, pending, inbox, srv,
                   data, arg, out>>

\* login_read that sends the command again when no response came
login_read_retry ==
    /\ pc = "login_read"
    /\ \E ev \in ReadEvents :
          LET r  == read_data(ev)
              st == exchange(r)
              c  == checked(st, "LoginFailed")
          IN  /\ Read(CommandTimeout, ev)
              /\ data' = [data EXCEPT !.login = r]
              /\ status' = [status EXCEPT !.login = st]
              /\ pc' = IF c.tag = "Ok" THEN "select"
                       ELSE IF c.err = "NoResponse" THEN "login" ELSE "exit"
              /\ result' = IF c.tag = "Ok" \/ c.err = "NoResponse" THEN result ELSE c
    /\ UNCHANGED <<debug_assertions, port_arg, sid_arg, port, pending, wire, srv,
                   arg, out>>

\* TelnetConn::login from the read of write_and_read on, and staff's check
login_read ==
    /\ pc = "login_read"
    /\ \E ev \in ReadEvents :
          LET r  == read_data(ev)
              st == exchange(r)
              c  == checked(st, "LoginFailed")
          IN  /\ Read(CommandTimeout, ev)
              /\ data' = [data EXCEPT !.login = r]
              /\ status' = [status EXCEPT !.login = st]
              /\ pc' = IF c.tag = "Ok" THEN "select" ELSE "exit"
              /\ result' = IF c.tag = "Ok" THEN result ELSE c
    /\ UNCHANGED <<debug_assertions, port_arg, sid_arg, port, pending, wire, srv,
                   arg, out>>

\* select_server_write with a sid that does not parse replaced by 0
\* (unwrap_or, as main does for the port)
select_server_write_default ==
    /\ pc = "select"
    /\ LET n == parse_i32(sid)
           v == IF n.ok THEN n.val ELSE 0
       IN  \E w \in WriteOutcomes(use_payload(v)) :
              /\ Write("use", use_payload(v), w)
              /\ status' = [status EXCEPT !.use = write_data(w)]
              /\ pc' = IF write_data(w).tag = "Err" THEN "exit" ELSE "select_read"
              /\ result' = IF write_data(w).tag = "Err" THEN write_data(w) ELSE result
    /\ UNCHANGED <<debug_assertions, port_arg, sid_arg, port, pending, inbox, srv,
                   data, arg, out>>

\* staff's sid.parse(), then TelnetConn::select_server up to the write
select_server_write ==
    /\ pc = "select"
    /\ LET n == parse_i32(sid)
       IN  IF ~n.ok
           THEN /\ pc' = "exit"
                /\ result' = Err("SidParseError")
                /\ UNCHANGED <<wire, events, status>>
           ELSE \E w \in WriteOutcomes(use_payload(n.val)) :
                   /\ Write("use", use_payload(n.val), w)
                   /\ status' = [status EXCEPT !.use = write_data(w)]
                   /\ pc' = IF write_data(w).tag = "Err" THEN "exit" ELSE "select_read"
                   /\ result' = IF write_data(w).tag = "Err" THEN write_data(w) ELSE result
    /\ UNCHANGED <<debug_assertions, port_arg, sid_arg, port, pending, inbox, srv,
                   data, arg, out>>

\* TelnetConn::select_server from the read on, staff's check and its Ok(())
select_server_read ==
    /\ pc = "select_read"
    /\ \E ev \in ReadEvents :
          LET r  == read_data(ev)
              st == exchange(r)
              c  == checked(st, "SelectFailed")
          IN  /\ Read(CommandTimeout, ev)
              /\ data' = [data EXCEPT !.use = r]
              /\ status' = [status EXCEPT !.use = st]
              /\ pc' = "exit"
              /\ result' = IF c.tag = "Ok" THEN [c EXCEPT !.id = 0, !.msg = <<>>] ELSE c
    /\ UNCHANGED <<debug_assertions, port_arg, sid_arg, port, pending, wire, srv,
                   arg, out>>

Next ==
    \/ main \/ connect \/ connect_read
    \/ login_write \/ login_read
    \/ select_server_write \/ select_server_read
    \/ ServerBanner \/ ServerReply \/ Deliver

Spec == Init /\ [][Next]_vars

\* the steps of the process itself
Client ==
    \/ main \/ connect \/ connect_read
    \/ login_write \/ login_read
    \/ select_server_write \/ select_server_read

\* the enabling condition of the step that reads at position p: the process
\* stands there and read_timeout has something to return
ReadEnabled(p) == pc = p /\ ReadEvents # {}

\* WF_vars(login_read) and WF_vars(select_server_read), with ENABLED of the
\* step written out as ReadEnabled: the rest of the step is defined for every
\* event and always extends the log
login_read_fair == []<>(~ReadEnabled("login_read")) \/ []<><<login_read>>_vars
select_server_read_fair ==
    []<>(~ReadEnabled("select_read")) \/ []<><<select_server_read>>_vars

\* the process is sequential and every call it makes returns (Telnet::connect
\* and write return, read_timeout returns whenever it has an event to return,
\* at the latest a timeout after its Duration), so its next step is always
\* taken: weak fairness of each of its steps. The server and the network owe
\* nothing.
FairSpec ==
    /\ Spec
    /\ WF_vars(main) /\ WF_vars(connect) /\ WF_vars(connect_read)
    /\ WF_vars(login_write) /\ WF_vars(select_server_write)
    /\ login_read_fair
    /\ select_server_read_fair

(***************************************************************************)
(* Properties of the run.                                                  *)
(***************************************************************************)
Writes(cmd) == {i \in DOMAIN events : events[i].op = "write" /\ events[i].cmd = cmd}
AllWrites   == {i \in DOMAIN events : events[i].op = "write"}
AllReads    == {i \in DOMAIN events : events[i].op = "read"}

Failed(r) == r.tag \in {"Err", "Panic"}

\* the lines of a chunk that start with "error "
StatusLines(bytes) == SelectSeq(lines(bytes), LAMBDA l : starts_with(l, ErrorTok))

\* the chunk decodes to a status with code 0
HasOkStatus(bytes) == status_of(bytes).tag = "Some" /\ status_of(bytes).id = 0

\* connect, banner read, login exchange with an ok status, sid parsed, use
\* exchange with an ok status: nothing else, and in this order
SuccessPath ==
    /\ Len(events) = 6
    /\ events[1].op = "connect" /\ events[1].out = "Ok"
    /\ events[2].op = "read" /\ events[2].out \in {"Data", "TimedOut", "NoData"}
    /\ events[3].op = "write" /\ events[3].cmd = "login" /\ events[3].out # "Error"
    /\ events[4].op = "read" /\ events[4].out = "Data"
    /\ data.login.tag = "Data" /\ HasOkStatus(data.login.bytes)
    /\ parse_i32(sid).ok
    /\ events[5].op = "write" /\ events[5].cmd = "use" /\ events[5].out # "Error"
    /\ events[6].op = "read" /\ events[6].out = "Data"
    /\ data.use.tag = "Data" /\ HasOkStatus(data.use.bytes)

\* C1: the run ends in success iff connect succeeded, then the login exchange
\* returned a chunk whose status line has code 0, then the sid parsed as an
\* integer, then the use exchange returned a chunk whose status line has code
\* 0; every other run ends in an error or a panic (a non-zero exit).
C1_SuccessIff ==
    pc = "exit" =>
        /\ result.tag \in {"Ok", "Err", "Panic"}
        /\ (result.tag = "Ok" <=> SuccessPath)

C1_Witness == pc = "exit" /\ result.tag = "Ok" /\ SuccessPath

\* the server's reply carries a well-formed status line with a code other than 0
NonZeroReply(r) ==
    \E k \in 1..Len(r) : \E w \in WellFormed :
        /\ w.id # 0
        /\ StatusLines(r[k]) # <<>>
        /\ StatusLines(r[k])[1] = w.line

\* C2: in a run where the server's reply to the login command carries a status
\* line with a non-zero code, the run aborts with a failure of the login (the
\* error carries the code when the reply is what login read) and the use
\* command is never written.
C2_LoginRejected ==
    (Len(srv.replies) >= 1 /\ NonZeroReply(srv.replies[1])) =>
        /\ Writes("use") = {}
        /\ \A i \in DOMAIN wire : wire[i].cmd # "use"
        /\ pc \notin {"select", "select_read"}
        /\ pc = "exit" =>
              /\ Failed(result)
              /\ result = checked(status.login, "LoginFailed")
              /\ (data.login.tag = "Data" /\ data.login.bytes = srv.replies[1][1])
                    => result.tag = "Err" /\ result.id # 0

C2_Witness ==
    /\ pc = "exit"
    /\ Len(srv.replies) = 1 /\ NonZeroReply(srv.replies[1])
    /\ data.login.tag = "Data" /\ data.login.bytes = srv.replies[1][1]
    /\ result.tag = "Err" /\ result.id = 520

\* the chunk's status line is well formed and has a code other than 0
NonZeroStatus(bytes, w) ==
    /\ w \in WellFormed /\ w.id # 0
    /\ from_utf8_ok(bytes)
    /\ StatusLines(bytes) # <<>>
    /\ StatusLines(bytes)[1] = w.line

\* C3: when the response chunk holds a well-formed status line with a code
\* other than 0, login / select_server return that status as a successful
\* value to staff (which alone turns it into LoginFailed / SelectFailed).
C3_NonZeroStatusReturned ==
    \A c \in {"login", "use"} : \A w \in WellFormed :
        (data[c].tag = "Data" /\ NonZeroStatus(data[c].bytes, w))
            => status[c] = Some(w.id, w.msg)

\* C4: a command read that ends in a timeout or in no data fails the
\* exchange with NoResponse and ends the run: it is the last operation on the
\* channel, the command was written once, and no use follows a login timeout.
C4_NoResponseAborts ==
    \A i \in DOMAIN events :
        (/\ events[i].op = "read" /\ events[i].n = CommandTimeout
         /\ events[i].out \in {"TimedOut", "NoData"})
        => /\ i = Len(events)
           /\ pc = "exit"
           /\ result = Err("NoResponse")
           /\ events[i - 1].op = "write"
           /\ Cardinality(Writes(events[i - 1].cmd)) = 1
           /\ events[i - 1].cmd = "login" => Writes("use") = {}

C4_Witness ==
    /\ pc = "exit" /\ result = Err("NoResponse")
    /\ Len(events) = 4 /\ events[4].out = "TimedOut"
    /\ Len(wire) = 1

\* C5: between the write of one command and the write of the next there is
\* exactly one completed read, and at most one command is awaiting its read.
C5_Sequential ==
    /\ \A i, j \in AllWrites :
          (i < j /\ ~\E k \in AllWrites : i < k /\ k < j)
              => /\ j = i + 2
                 /\ events[i + 1].op = "read" /\ events[i + 1].n = CommandTimeout
    /\ \A i \in AllWrites :
          \/ i = Len(events)
          \/ events[i + 1].op = "read"
    /\ Cardinality(AllWrites) - Cardinality({i \in AllReads : i > 2}) \in {0, 1}

C5_Witness ==
    /\ Len(events) = 5
    /\ events[3].op = "write" /\ events[4].op = "read" /\ events[5].op = "write"

\* an operation on the channel that failed
FailedEvent(e) ==
    \/ e.out \in {"Error", "Other"}
    \/ e.op = "read" /\ e.n = CommandTimeout /\ e.out \in {"TimedOut", "NoData"}

\* C6: login is written at most once, use at most once and only after login,
\* so at most two commands are written; every failure ends the run at once.
C6_NoRetries ==
    /\ Cardinality(Writes("login")) <= 1
    /\ Cardinality(Writes("use")) <= 1
    /\ \A u \in Writes("use") : \E l \in Writes("login") : l < u
    /\ Cardinality(AllWrites) <= 2 /\ Len(wire) <= 2
    /\ \A i \in DOMAIN events :
          FailedEvent(events[i]) => i = Len(events) /\ pc = "exit" /\ Failed(result)
    /\ Failed(status.login) =>
          pc = "exit" /\ Failed(result) /\ Writes("use") = {} /\ Len(events) <= 4
    /\ Failed(status.use) => pc = "exit" /\ Failed(result) /\ Len(events) <= 6
    /\ Failed(result) => pc = "exit"

C6_Witness ==
    /\ pc = "exit" /\ Failed(result)
    /\ Cardinality(Writes("login")) = 1 /\ Cardinality(Writes("use")) = 1
    /\ Len(events) = 6 /\ FailedEvent(events[6])

\* C7: connect makes exactly one read, bounded by 1 second, after the channel
\* is opened and before any command is written; when it ends in a timeout or
\* in no data connect succeeds and login is next; when it fails connect fails
\* and no command is ever written.
C7_BannerRead ==
    /\ Len(events) >= 1 => events[1].op = "connect"
    /\ Len(events) >= 2 =>
          /\ events[1].out = "Ok"
          /\ events[2].op = "read" /\ events[2].n = BannerTimeout
    /\ \A i \in DOMAIN events :
          /\ (events[i].op = "read" /\ events[i].n = BannerTimeout) => i = 2
          /\ events[i].op = "write" => i > 2
    /\ (Len(events) = 2 /\ events[2].out \in {"TimedOut", "NoData"})
          => pc = "login" /\ result = Running
    /\ (Len(events) >= 2 /\ events[2].out \in {"Error", "Other"})
          => /\ Len(events) = 2 /\ wire = <<>>
             /\ pc = "exit" /\ result = Err("ReadError")

C7_Witness ==
    /\ Len(events) >= 3
    /\ events[2].op = "read" /\ events[2].out = "TimedOut"
    /\ events[3].op = "write" /\ events[3].cmd = "login"

(***************************************************************************)
(* Properties of the decoder.                                              *)
(***************************************************************************)
\* line k of the buffer is the only one that starts with "error "
OnlyStatusLine(k) ==
    /\ k \in DOMAIN arg
    /\ starts_with(arg[k].line, ErrorTok)
    /\ \A j \in DOMAIN arg : j # k => ~starts_with(arg[j].line, ErrorTok)

\* C8: for a valid-text buffer in which exactly one line has the form
\* "error id=<N> msg=<text>", at any position among lines that do not start
\* with "error ", decode returns Some(Status{N, text}), for N zero or not.
C8_DecodesWellFormed ==
    pc # "decode" =>
        \A k \in DOMAIN arg : \A w \in WellFormed :
            (from_utf8_ok(Render(arg)) /\ OnlyStatusLine(k) /\ arg[k].line = w.line)
                => out.decoded = Some(w.id, w.msg)

\* C9: for a valid-text buffer in which no line starts with "error ", decode
\* returns None without failing or aborting, and login / select_server then
\* fail with NoStatusLine.
C9_NoStatusLine ==
    pc = "returned" =>
        ((from_utf8_ok(Render(arg))
          /\ \A j \in DOMAIN arg : ~starts_with(arg[j].line, ErrorTok))
            => out.decoded = None /\ out.returned = Err("NoStatusLine"))

\* status lines that cannot be parsed: id not an integer (or not an i32), no
\* space after the id field, an id field without "=", a msg field without "="
Malformed == { L_nan, L_big, L_nospace, L_ideq, L_msgeq0, L_short }

MalformedStatus == { Err("SplitError"), Err("ParseError") }

\* C10: a status line that is present but cannot be parsed makes decoding
\* return the MalformedStatus error, which login / select_server pass on; it
\* never yields a Status and never terminates abnormally.
C10_MalformedIsError ==
    pc = "returned" =>
        \A k \in DOMAIN arg :
            (from_utf8_ok(Render(arg)) /\ OnlyStatusLine(k) /\ arg[k].line \in Malformed)
                => out.decoded \in MalformedStatus /\ out.returned = out.decoded

(***************************************************************************)
(* Properties of the arguments, of the writes and of termination.          *)
(***************************************************************************)
\* login returned a status and staff found it ok
LoginOk == status.login.tag = "Some" /\ is_ok(status.login)

NoUseWritten ==
    /\ Writes("use") = {}
    /\ \A i \in DOMAIN wire : wire[i].cmd # "use"
    /\ pc # "select_read"

\* C11 as stated: when the sid argument does not parse as an integer, the run
\* aborts with a parse error and the use command is never written.
C11_AbortsWithParseError ==
    ~parse_i32(sid).ok =>
        /\ NoUseWritten
        /\ pc = "exit" => result = Err("SidParseError")

\* C11 as amended: when the sid argument does not parse as an integer, the use
\* command is never written and the run ends in an error, which is the sid
\* parse error exactly when connect and login succeeded before.
C11_SidNeverUsed ==
    ~parse_i32(sid).ok =>
        /\ NoUseWritten
        /\ pc = "exit" =>
              /\ Failed(result)
              /\ result = Err("SidParseError") <=> LoginOk

C11_Witness ==
    /\ sid = <<"a", "b", "c">>
    /\ pc = "exit" /\ result = Err("SidParseError")
    /\ LoginOk /\ Len(events) = 4

\* what the read outcome recorded in the log makes read_data return
ReadTag(o) ==
    CASE o = "Data" -> "Data" [] o \in {"TimedOut", "NoData"} -> "Nothing" [] OTHER -> "Err"

\* C12: a short write (fewer bytes written than the command has, no I/O error)
\* does not fail the exchange: the exchange goes on to its single 2-second
\* read and returns what that read's outcome makes it return.
C12_ShortWriteProceeds ==
    \A i \in DOMAIN events :
        (events[i].op = "write" /\ events[i].out = "Short") =>
            LET c == events[i].cmd
            IN  /\ \E k \in DOMAIN wire :
                      /\ wire[k].cmd = c
                      /\ Len(wire[k].bytes) <
                            Len(IF c = "login" THEN login_payload
                                ELSE use_payload(parse_i32(sid).val))
                /\ i = Len(events) =>
                      /\ pc = (IF c = "login" THEN "login_read" ELSE "select_read")
                      /\ result = Running
                /\ i < Len(events) =>
                      /\ events[i + 1].op = "read" /\ events[i + 1].n = CommandTimeout
                      /\ data[c].tag = ReadTag(events[i + 1].out)
                      /\ status[c] = exchange(data[c])
                      /\ \A j \in DOMAIN events : (j > i + 1 /\ j < i + 3) =>
                            events[j].op = "write"

C12_Witness ==
    /\ Len(events) >= 4
    /\ events[3].op = "write" /\ events[3].out = "Short"
    /\ events[4].op = "read" /\ events[4].out = "Data"
    /\ LoginOk

\* C13: every run terminates: whatever the server sends or does not send, the
\* run reaches a terminal state, after at most three reads and two writes.
C13_Terminates ==
    /\ <>(pc = "exit")
    /\ [](Cardinality(AllReads) <= 3 /\ Cardinality(AllWrites) <= 2)

C13_Witness ==
    /\ pc = "exit"
    /\ Cardinality(AllReads) = 3 /\ Cardinality(AllWrites) = 2
    /\ events[Len(events)].op = "read" /\ events[Len(events)].out = "TimedOut"

\* C14: for a buffer that is not valid UTF-8, decode fails with the encoding
\* error before any line is scanned, also when the buffer holds a well-formed
\* "error id=0 msg=..." line, and login / select_server fail with that error.
C14_EncodingError ==
    (pc # "decode" /\ ~from_utf8_ok(Render(arg))) =>
        /\ out.decoded = Err("FromUtf8Error")
        /\ pc = "returned" => out.returned = Err("FromUtf8Error")

C14_Witness ==
    /\ pc = "returned"
    /\ \E j, k \in DOMAIN arg : arg[j].line = L_bad /\ arg[k].line = L_ok
    /\ out.decoded = Err("FromUtf8Error") /\ out.returned = Err("FromUtf8Error")

\* a --port was given and it is not a port number
BadPort == port_arg # NoArg /\ ~parse_u16(port_arg).ok

\* C15: a port argument that does not parse as a port number never aborts the
\* run: main goes on to the connection attempt, and that attempt is made on
\* port 10011, the port used when no port is given.
C15_BadPortFallsBack ==
    (BadPort /\ pc # "main") =>
        /\ port = DefaultPort
        /\ port = parse_u16(fmt_i32(DefaultPort)).val
        /\ pc = "connect" => (result = Running /\ events = <<>>)
        /\ pc # "connect" =>
              /\ Len(events) >= 1
              /\ events[1].op = "connect" /\ events[1].n = DefaultPort
        /\ result.tag = "Err" => result.err # "PortParseError"

C15_Witness ==
    /\ port_arg = <<"a", "b", "c">>
    /\ Len(events) >= 2
    /\ events[1] = Ev("connect", DefaultPort, "", "Ok")
    /\ events[2].op = "read"

\* the server answered the k-th command, and r is the chunk login (k = 1) or
\* select_server (k = 2) decoded: the chunk is that answer, whole
IsReplyTo(r, k) ==
    r.tag = "Data" => (Len(srv.replies) >= k /\ r.bytes = Concat(srv.replies[k]))

\* the server's answer to login carries the status code 0
ServerAcceptsLogin ==
    Len(srv.replies) >= 1 /\ HasOkStatus(Concat(srv.replies[1]))

\* C16: the chunk that login (select_server) decodes is the server's reply to
\* that command, under every interleaving of server sends and client reads:
\* never bytes of the greeting, never a part of the reply only; so when the
\* server accepts the login, a login that read data does not fail.
C16_DecodesOwnReply ==
    /\ IsReplyTo(data.login, 1)
    /\ IsReplyTo(data.use, 2)
    /\ (ServerAcceptsLogin /\ data.login.tag = "Data") => ~Failed(status.login)

\* the first line of the buffer that starts with "error "
FirstStatusLine == Head(StatusLines(Render(arg)))

\* C17: the result of decode is determined solely by the first line that
\* starts with "error ": it is the result for that line alone, whatever the
\* other lines are; a malformed first line makes decoding fail even when a
\* later line is a well-formed "error id=0 msg=...", and the code and message
\* of a well-formed first line are the ones returned.
C17_FirstStatusLineDecides ==
    (pc # "decode" /\ from_utf8_ok(Render(arg)) /\ StatusLines(Render(arg)) # <<>>) =>
        /\ out.decoded = decode_result(FirstStatusLine \o LF)
        /\ FirstStatusLine \in Malformed => Failed(out.decoded)
        /\ \A w \in WellFormed :
              FirstStatusLine = w.line =>
                  out.decoded.id = w.id /\ out.decoded.msg = w.msg

\* the sid argument is not an i32
BadSid == ~parse_i32(sid).ok

\* connect succeeded, the greeting was read, login was written with the
\* credentials and its response was read and is an ok status; nothing else
LoginExchangeDone ==
    /\ Len(events) = 4
    /\ events[1].op = "connect" /\ events[1].out = "Ok"
    /\ events[2].op = "read" /\ events[2].n = BannerTimeout
    /\ events[3].op = "write" /\ events[3].cmd = "login" /\ events[3].out # "Error"
    /\ events[4].op = "read" /\ events[4].n = CommandTimeout /\ events[4].out = "Data"
    /\ Len(wire) = 1 /\ wire[1].cmd = "login"
    /\ contains(wire[1].bytes, User) /\ contains(wire[1].bytes, Password)
    /\ LoginOk

\* C18: the sid is validated only after the login exchange succeeded: with a
\* sid that does not parse, the connection is opened, login is written and its
\* response read before the run aborts with the sid parse error; when connect
\* or login fails first, the sid parse error is never reported.
C18_SidValidatedLate ==
    /\ result = Err("SidParseError") => (BadSid /\ pc = "exit" /\ LoginExchangeDone)
    /\ (BadSid /\ pc \in {"connect", "banner", "login", "login_read", "select"})
          => result = Running
    /\ (BadSid /\ pc = "exit" /\ LoginOk) => result = Err("SidParseError")
    /\ (pc = "exit" /\ ~LoginOk) => result # Err("SidParseError")

C18_Witness ==
    /\ sid_arg = <<"a", "b", "c">>
    /\ pc = "exit" /\ result = Err("SidParseError")
    /\ LoginExchangeDone
    /\ wire[1].bytes = login_payload

\* the exchange of command c ended at its write: no read was made for it and
\* its Result is the error of the write
FailedAtWrite(c) ==
    IF c = "login"
    THEN status.login = Err("WriteError") /\ data.login = NotRead
    ELSE status.use = Err("WriteError") /\ data.use = NotRead

\* C19: when the write of a command fails with a transport I/O error, the
\* exchange fails without a read, the error reaches the orchestration, and
\* the run ends with no further write or read on the channel.
C19_WriteErrorAborts ==
    \A i \in DOMAIN events :
        (events[i].op = "write" /\ events[i].out = "Error") =>
            /\ i = Len(events)
            /\ pc = "exit"
            /\ result = Err("WriteError")
            /\ FailedAtWrite(events[i].cmd)
            /\ \A j \in DOMAIN wire : wire[j].cmd # events[i].cmd

C19_Witness ==
    /\ Len(events) = 5
    /\ events[5] = Ev("write", 0, "use", "Error")
    /\ events[3] = Ev("write", 0, "login", "Full")
    /\ pc = "exit" /\ result = Err("WriteError")
    /\ data.use = NotRead

====
